---------------------------- MODULE Spec2Model ----------------------------
(***************************************************************************)
(* Model of src/modular_arithmetic.py: the rings of integers modulo n      *)
(* (class ModRing) and their elements (class ModInt), with the prime       *)
(* factorization, Euler's totient, the decomposition of the modulus        *)
(* relative to a value and the shortcut exponentiation.                    *)
(*                                                                         *)
(* A ModRing object is a record [n, prime_factors, phi]; prime_factors is  *)
(* the dict in insertion order, a sequence of <<prime, multiplicity>>.     *)
(* A ModInt object is a record [n, value, ring], where ring is the index   *)
(* of its ModRing in the heap `rings` (object identity, Python's `is`).    *)
(***************************************************************************)
EXTENDS Integers, Sequences, FiniteSets, TLC

VARIABLES rings,   \* the ModRing objects constructed so far, by identity
          elems,   \* the ModInt objects the caller holds
          out      \* the last call: operation, operands and what it returned

vars == <<rings, elems, out>>

---------------------------------------------------------------------------
(* Bounds of the model *)

\* ModRing objects alive at once in the session specification
MaxRings == 2
\* ModInt objects the caller holds at once in the session specification
MaxElems == 2
\* largest modulus in the session specification
MaxN == 5
\* raw integers handed to ring(value) in the session range over -MaxInt..MaxInt
MaxInt == 6
\* exponents in the session range over -SessExp..SessExp
SessExp == 3
\* largest modulus in the single-ring specification
WideN == 50
\* exponents in the single-ring specification range over -MaxExp..MaxExp,
\* and SweepExp
MaxExp == 6
\* powers t = 0..MaxT of a value are inspected for nilpotency
MaxT == 7

\* exp = 100 of the exponentiation sweep in __main__
SweepExp == 100

---------------------------------------------------------------------------
(* Integer helpers *)

Max(x, y) == IF x >= y THEN x ELSE y

\* (b ** e) % n, for e >= 0.  Python integers are unbounded, so the residue
\* of the full power is the residue of the product reduced after every
\* multiplication; the power is taken by squaring, as int.__pow__ does.
RECURSIVE PowMod(_, _, _)
PowMod(b, e, n) ==
    IF e = 0 THEN 1 % n
    ELSE LET h == PowMod(b, e \div 2, n)
         IN  IF e % 2 = 0 THEN (h * h) % n ELSE (((h * h) % n) * b) % n

---------------------------------------------------------------------------
(* ModRing *)

\* while remainder == 0: z = quotient; prime_factors[p] += 1
\* returns <<remaining z, multiplicity of p>>
RECURSIVE StripFactor(_, _, _)
StripFactor(z, p, cnt) ==
    IF z % p = 0 THEN StripFactor(z \div p, p, cnt + 1) ELSE <<z, cnt>>

TrialContinuesStrict(m, z) == m * m < z

\* while m * m <= z
TrialContinues(m, z) == m * m <= z

RECURSIVE OddTrial(_, _, _)
OddTrial(z, m, pf) ==
    IF TrialContinues(m, z)
    THEN IF z % m = 0
         THEN LET s == StripFactor(z, m, 0)
              IN  OddTrial(s[1], m + 2, Append(pf, <<m, s[2]>>))
         ELSE OddTrial(z, m + 2, pf)
    ELSE IF z # 1 THEN Append(pf, <<z, 1>>) ELSE pf

factorize(n) ==
    IF n % 2 = 0
    THEN LET s == StripFactor(n, 2, 0)
         IN  OddTrial(s[1], 3, << <<2, s[2]>> >>)
    ELSE OddTrial(n, 3, <<>>)

EulerStepUnparenthesised(x, y) == ((x \div y) * y) - 1

\* lambda x, y: x // y * (y - 1)
EulerStep(x, y) == (x \div y) * (y - 1)

\* functools.reduce over chain([n], keys): the accumulator after i keys
RECURSIVE PhiFold(_, _, _)
PhiFold(n, pf, i) ==
    IF i = 0 THEN n ELSE EulerStep(PhiFold(n, pf, i - 1), pf[i][1])

compute_phi(n, pf) == PhiFold(n, pf, Len(pf))

ModRing(n) ==
    LET pf == factorize(n)
    IN  [n |-> n, prime_factors |-> pf, phi |-> compute_phi(n, pf)]

---------------------------------------------------------------------------
(* ModInt *)

ModIntUnreduced(value, r, R) == [n |-> R.n, value |-> value, ring |-> r]

\* ModInt.__init__(value, ring): r is the identity of the ring object R
ModInt(value, r, R) == [n |-> R.n, value |-> value % R.n, ring |-> r]

SameModulus(a, b) == a.n = b.n

\* other.ring is self.ring
SameRing(a, b) == a.ring = b.ring

is_coprime(a, R) ==
    \A i \in 1..Len(R.prime_factors) : a.value % R.prime_factors[i][1] # 0

\* for i in range(e - 1): the multiplicity of p in value, clipped to e
\* returns <<stripped value, value_e>>
RECURSIVE ClipMultiplicity(_, _, _, _)
ClipMultiplicity(value, p, value_e, left) ==
    IF left = 0 THEN <<value, value_e>>
    ELSE IF value % p = 0
         THEN ClipMultiplicity(value \div p, p, value_e + 1, left - 1)
         ELSE ClipMultiplicity(value, p, value_e, left - 1)

NulPowPFloor(e, value_e) == e \div value_e

\* quotient - bool(remainder == 0), with divmod(e, value_e)
NulPowP(e, value_e) ==
    (e \div value_e) - (IF e % value_e = 0 THEN 1 ELSE 0)

\* for p, e in self.ring.prime_factors.items(), from the i-th item on
RECURSIVE DecomposeFold(_, _, _)
DecomposeFold(pf, i, st) ==
    IF i > Len(pf) THEN st
    ELSE LET p == pf[i][1]
             e == pf[i][2]
         IN  IF st.value % p = 0
             THEN LET p_e == p ^ e
                      c   == ClipMultiplicity(st.value \div p, p, 1, e - 1)
                      np  == NulPowP(e, c[2])
                  IN  DecomposeFold(pf, i + 1,
                          [nul_pow |-> Max(np, st.nul_pow),
                           k       |-> st.k * p_e,
                           m       |-> st.m \div p_e,
                           value   |-> c[1]])
             ELSE DecomposeFold(pf, i + 1, st)

\* returns <<nul_pow, k, m>>
decompose(a, R) ==
    LET st == DecomposeFold(R.prime_factors, 1,
                  [nul_pow |-> -1, k |-> 1, m |-> a.n, value |-> a.value])
    IN  <<st.nul_pow, st.k, st.m>>

---------------------------------------------------------------------------
(* What a call returns or raises *)

NoElem == [n |-> 0, value |-> 0, ring |-> 0]

Result(kind, e, exc, flag, triple) ==
    [kind |-> kind, elem |-> e, exc |-> exc, flag |-> flag, triple |-> triple]

\* return <ModInt>
Returned(e) == Result("elem", e, "", FALSE, <<0, 0, 0>>)
\* raise ValueError / a failed assert
Raised(exc) == Result("error", NoElem, exc, FALSE, <<0, 0, 0>>)
\* the function ends without a return statement
ReturnedNone == Result("None", NoElem, "", FALSE, <<0, 0, 0>>)
ReturnedBool(f) == Result("bool", NoElem, "", f, <<0, 0, 0>>)
ReturnedTriple(t) == Result("triple", NoElem, "", FALSE, t)
ReturnedRing == Result("ring", NoElem, "", FALSE, <<0, 0, 0>>)
NoResult == Result("none", NoElem, "", FALSE, <<0, 0, 0>>)

\* assert other.ring is self.ring, "numbers come from different rings"
RingMismatch == Raised("AssertionError: numbers come from different rings")
\* raise ValueError("0 cannot be eleveted to power")
ZeroPower == Raised("ValueError: 0 cannot be eleveted to power")
\* assert self.is_coprime(), "exponent needs to be positive for non-coprimes"
NonCoprime ==
    Raised("AssertionError: exponent needs to be positive for non-coprimes")

---------------------------------------------------------------------------
(* ModInt operators; R is the ring object of the left operand *)

eq(a, b) ==
    IF ~SameRing(a, b) THEN RingMismatch
    ELSE ReturnedBool(b.value = a.value)

neg(a, R) == Returned(ModInt(a.n - a.value, a.ring, R))

add(a, b, R) ==
    IF ~SameRing(a, b) THEN RingMismatch
    ELSE Returned(ModInt(a.value + b.value, a.ring, R))

sub(a, b, R) ==
    IF ~SameRing(a, b) THEN RingMismatch
    ELSE Returned(ModInt(a.value - b.value, a.ring, R))

mul(a, b, R) ==
    IF ~SameRing(a, b) THEN RingMismatch
    ELSE Returned(ModInt(a.value * b.value, a.ring, R))

pow_negative_negated(a, R, exponent) ==
    IF ~is_coprime(a, R) THEN NonCoprime
    ELSE Returned(ModInt(PowMod(a.value, (-exponent) % R.phi, R.n), a.ring, R))

\* elif exponent < 0
pow_negative(a, R, exponent) ==
    IF ~is_coprime(a, R) THEN NonCoprime
    ELSE Returned(ModInt(PowMod(a.value, exponent % R.phi, R.n), a.ring, R))

ShortcutValueFirstPower(k, phi_m, value, exponent, n) ==
    (k * PowMod(value, exponent, n)) % n

\* k ** phi_m * self.value ** exponent, reduced by ModInt
ShortcutValue(k, phi_m, value, exponent, n) ==
    (PowMod(k, phi_m, n) * PowMod(value, exponent, n)) % n

\* else (exponent > 0)
pow_positive(a, R, exponent, short) ==
    IF short
    THEN LET d == decompose(a, R)
             nul_pow == d[1]
             k == d[2]
             m == d[3]
         IN  IF nul_pow = -1
             THEN Returned(ModInt(PowMod(a.value, exponent % R.phi, R.n),
                                  a.ring, R))
             ELSE IF exponent > nul_pow
                  THEN LET phi_m == ModRing(m).phi
                       IN  Returned(ModInt(
                               ShortcutValue(k, phi_m, a.value,
                                             exponent % phi_m, R.n),
                               a.ring, R))
                  ELSE ReturnedNone
    ELSE Returned(ModInt(PowMod(a.value, exponent, R.n), a.ring, R))

\* the elif chain after the zero check
pow_nonzero(a, R, exponent, short) ==
    IF exponent = 0 \/ a.value = 1 THEN Returned(ModInt(1, a.ring, R))
    ELSE IF exponent < 0 THEN pow_negative(a, R, exponent)
    ELSE pow_positive(a, R, exponent, short)

powIdentityFirst(a, R, exponent, short) ==
    IF exponent = 0 \/ a.value = 1 THEN Returned(ModInt(1, a.ring, R))
    ELSE IF a.value = 0 THEN ZeroPower
    ELSE pow_nonzero(a, R, exponent, short)

pow(a, R, exponent, short) ==
    IF a.value = 0 THEN ZeroPower
    ELSE pow_nonzero(a, R, exponent, short)

\* self * divisor ** -1: the power is evaluated first, then the product
floordiv(a, b, R) ==
    IF ~SameRing(a, b) THEN RingMismatch
    ELSE LET inv == pow(b, R, -1, TRUE)
         IN  IF inv.kind = "error" THEN inv ELSE mul(a, inv.elem, R)

---------------------------------------------------------------------------
(* The calls a program makes *)

Call(op, a, b, arg, short, res) ==
    [op |-> op, a |-> a, b |-> b, arg |-> arg, short |-> short, res |-> res]

\* the caller keeps the returned object while it has room for it
Retain(res, maxE) ==
    IF res.kind = "elem" /\ Cardinality(elems \cup {res.elem}) <= maxE
    THEN elems \cup {res.elem}
    ELSE elems

Init ==
    /\ rings = <<>>
    /\ elems = {}
    /\ out = Call("none", NoElem, NoElem, 0, FALSE, NoResult)

\* ModRing(n)
NewRing(n, maxR) ==
    /\ Len(rings) < maxR
    /\ rings' = Append(rings, ModRing(n))
    /\ out' = Call("ring", NoElem, NoElem, n, FALSE, ReturnedRing)
    /\ UNCHANGED elems

\* ring(value); the caller mints only what it has room to hold
Mint(r, value, maxE) ==
    LET res == Returned(ModInt(value, r, rings[r]))
    IN  /\ Cardinality(elems) < maxE
        /\ out' = Call("mint", NoElem, NoElem, value, FALSE, res)
        /\ elems' = Retain(res, maxE)
        /\ UNCHANGED rings

\* -a
Neg(a, maxE) ==
    LET res == neg(a, rings[a.ring])
    IN  /\ out' = Call("neg", a, NoElem, 0, FALSE, res)
        /\ elems' = Retain(res, maxE)
        /\ UNCHANGED rings

\* a + b
Add(a, b, maxE) ==
    LET res == add(a, b, rings[a.ring])
    IN  /\ out' = Call("add", a, b, 0, FALSE, res)
        /\ elems' = Retain(res, maxE)
        /\ UNCHANGED rings

\* a - b
Sub(a, b, maxE) ==
    LET res == sub(a, b, rings[a.ring])
    IN  /\ out' = Call("sub", a, b, 0, FALSE, res)
        /\ elems' = Retain(res, maxE)
        /\ UNCHANGED rings

\* a * b
Mul(a, b, maxE) ==
    LET res == mul(a, b, rings[a.ring])
    IN  /\ out' = Call("mul", a, b, 0, FALSE, res)
        /\ elems' = Retain(res, maxE)
        /\ UNCHANGED rings

\* a // b
FloorDiv(a, b, maxE) ==
    LET res == floordiv(a, b, rings[a.ring])
    IN  /\ out' = Call("floordiv", a, b, 0, FALSE, res)
        /\ elems' = Retain(res, maxE)
        /\ UNCHANGED rings

\* a == b
Eq(a, b) ==
    /\ out' = Call("eq", a, b, 0, FALSE, eq(a, b))
    /\ UNCHANGED <<rings, elems>>

\* a ** exponent, a.__pow__(exponent, short)
Pow(a, exponent, short, maxE) ==
    LET res == pow(a, rings[a.ring], exponent, short)
    IN  /\ out' = Call("pow", a, NoElem, exponent, short, res)
        /\ elems' = Retain(res, maxE)
        /\ UNCHANGED rings

\* a.decompose()
Decompose(a) ==
    /\ out' = Call("decompose", a, NoElem, 0, FALSE,
                   ReturnedTriple(decompose(a, rings[a.ring])))
    /\ UNCHANGED <<rings, elems>>

Calls(maxR, maxE, maxN, maxV, exps) ==
    \/ \E n \in 2..maxN : NewRing(n, maxR)
    \/ \E r \in 1..Len(rings), v \in (-maxV)..maxV : Mint(r, v, maxE)
    \/ \E a \in elems : Neg(a, maxE)
    \/ \E a, b \in elems : Add(a, b, maxE)
    \/ \E a, b \in elems : Sub(a, b, maxE)
    \/ \E a, b \in elems : Mul(a, b, maxE)
    \/ \E a, b \in elems : FloorDiv(a, b, maxE)
    \/ \E a, b \in elems : Eq(a, b)
    \/ \E a \in elems, x \in exps, s \in BOOLEAN : Pow(a, x, s, maxE)
    \/ \E a \in elems : Decompose(a)

\* a session with several rings (two of them may have the same modulus)
Next == Calls(MaxRings, MaxElems, MaxN, MaxInt, (-SessExp)..SessExp)

Spec == Init /\ [][Next]_vars

\* one ring of any modulus up to WideN and one element of it at a time
WideNext == Calls(1, 1, WideN, WideN, ((-MaxExp)..MaxExp) \cup {SweepExp})

WideSpec == Init /\ [][WideNext]_vars

---------------------------------------------------------------------------
(* Arithmetic the properties are stated with, independent of the code *)

RECURSIVE GCD(_, _)
GCD(x, y) == IF y = 0 THEN x ELSE GCD(y, x % y)

IsPrime(p) == p > 1 /\ \A d \in 2..(p - 1) : p % d # 0

\* the number of integers in [1, n) coprime to n
CoprimeCount(n) == Cardinality({j \in 1..(n - 1) : GCD(j, n) = 1})

\* Euler's totient, with totient(1) = 1
Totient(n) == IF n = 1 THEN 1 ELSE CoprimeCount(n)

\* the largest power of p that divides n
RECURSIVE PrimePower(_, _)
PrimePower(n, p) == IF n % p = 0 THEN p * PrimePower(n \div p, p) ELSE 1

\* the product of the full prime powers of n whose prime divides v
RECURSIVE SharedPart(_, _, _)
SharedPart(n, v, p) ==
    IF p > n THEN 1
    ELSE (IF IsPrime(p) /\ n % p = 0 /\ v % p = 0 THEN PrimePower(n, p) ELSE 1)
         * SharedPart(n, v, p + 2 - (IF p = 2 THEN 1 ELSE 0))

\* p1^e1 * ... * pi^ei of a factor mapping
RECURSIVE FactorProduct(_, _)
FactorProduct(pf, i) ==
    IF i = 0 THEN 1 ELSE FactorProduct(pf, i - 1) * (pf[i][1] ^ pf[i][2])

LargestCoprimeDivisor(n, v) ==
    CHOOSE d \in 1..n :
        /\ n % d = 0 /\ GCD(d, v) = 1
        /\ \A c \in 1..n : (n % c = 0 /\ GCD(c, v) = 1) => c <= d

RingOf(a) == rings[a.ring]

One(a) == Returned([n |-> a.n, value |-> 1, ring |-> a.ring])

---------------------------------------------------------------------------
(* Properties *)

\* C1: for every element with value # 0 and every exponent > 0, also an
\* exponent of at most nul_pow, the shortcut power returns the Element of value
\* value^exponent mod n, the one the direct mode returns.
C1_ShortcutPowerIsDirectPower ==
    (out.op = "pow" /\ out.short /\ out.a.value # 0 /\ out.arg > 0)
        => /\ out.res.kind = "elem"
           /\ out.res.elem.value = PowMod(out.a.value, out.arg, out.a.n)
           /\ out.res = pow(out.a, RingOf(out.a), out.arg, FALSE)

\* C2: for every value in [2, n) and every positive exponent above the nul_pow
\* of decompose, the shortcut power is the direct power: value^(exponent mod
\* phi(n)) for a unit, k^phi(m) * value^(exponent mod phi(m)) for a non-unit,
\* both equal to value^exponent mod n.
C2_ShortcutEqualsDirectAboveNulPow ==
    (out.op = "pow" /\ out.short /\ out.a.value >= 2 /\ out.arg > 0
     /\ out.arg > decompose(out.a, RingOf(out.a))[1])
        => LET v == out.a.value
               n == out.a.n
               x == out.arg
               d == decompose(out.a, RingOf(out.a))
               direct == PowMod(v, x, n)
           IN  /\ out.res = pow(out.a, RingOf(out.a), x, FALSE)
               /\ out.res.kind = "elem"
               /\ out.res.elem.value = direct
               /\ IF GCD(v, n) = 1
                  THEN PowMod(v, x % Totient(n), n) = direct
                  ELSE (PowMod(d[2], Totient(d[3]), n)
                        * PowMod(v, x % Totient(d[3]), n)) % n = direct

\* the sweep's exponent on a non-unit whose modulus keeps a coprime part
C2_Witness ==
    /\ out.op = "pow" /\ out.short /\ out.arg = SweepExp
    /\ out.a.value >= 2
    /\ GCD(out.a.value, out.a.n) # 1
    /\ decompose(out.a, RingOf(out.a))[3] > 1
    /\ out.res.kind = "elem" /\ out.res.elem.value # 0

\* C3: add, subtract, multiply, floor-divide and equality of two elements of
\* different ring objects fail with the ring-mismatch error, also when the two
\* rings have the same modulus; nothing is returned.
C3_CrossRingFails ==
    (out.op \in {"add", "sub", "mul", "floordiv", "eq"}
     /\ out.a.ring # out.b.ring)
        => /\ out.res = RingMismatch
           /\ out.res.kind = "error"
           /\ out.res.elem = NoElem

\* equal values of two ring objects with one modulus, compared
C3_Witness ==
    /\ out.op = "eq"
    /\ out.a.ring # out.b.ring
    /\ out.a.n = out.b.n
    /\ out.a.value = out.b.value
    /\ out.res.kind = "error"

\* C4: in both modes the power fails exactly when the value is 0 (whatever the
\* exponent) or the exponent is negative and the value is not a unit; otherwise
\* exponent 0 or value 1 gives the element 1.
C4_PowerFailsExactlyWhen ==
    (out.op = "pow")
        => LET v == out.a.value
               x == out.arg
               bad == v = 0 \/ (x < 0 /\ GCD(v, out.a.n) # 1)
           IN  /\ (out.res.kind = "error") <=> bad
               /\ (v = 0) => out.res = ZeroPower
               /\ (~bad /\ (x = 0 \/ v = 1)) => out.res = One(out.a)

\* zero to the power zero: the zero check comes first
C4_Witness ==
    /\ out.op = "pow" /\ out.a.value = 0 /\ out.arg = 0
    /\ out.res.kind = "error"

\* C5: for a unit b and j >= 1, b^(-j) * b^j is the element 1; a // b is a times
\* that inverse, so (a // b) * b is a; a // b fails when b is not a unit.
C5_InverseAndFloorDivision ==
    /\ (out.op = "pow" /\ out.arg < 0 /\ GCD(out.a.value, out.a.n) = 1)
        => LET R == RingOf(out.a)
               bj == pow(out.a, R, -out.arg, TRUE)
           IN  /\ out.res.kind = "elem"
               /\ bj.kind = "elem"
               /\ mul(out.res.elem, bj.elem, R) = One(out.a)
    /\ (out.op = "floordiv" /\ out.a.ring = out.b.ring)
        => LET R == RingOf(out.a)
           IN  IF GCD(out.b.value, out.b.n) = 1
               THEN /\ out.res.kind = "elem"
                    /\ mul(out.res.elem, out.b, R) = Returned(out.a)
                    /\ mul(out.b, pow(out.b, R, -1, TRUE).elem, R) = One(out.a)
               ELSE out.res.kind = "error"

\* a division by a unit other than 1 of another, nonzero element
C5_Witness ==
    /\ out.op = "floordiv"
    /\ out.a.ring = out.b.ring
    /\ GCD(out.b.value, out.b.n) = 1
    /\ out.b.value > 1
    /\ out.a.value # 0
    /\ out.a # out.b
    /\ out.res.kind = "elem"

\* C6: the totient of a ring is the number of integers in [1, n) coprime to n,
\* and every division of the fold acc / p * (p - 1) is exact.
C6_TotientCountsUnits ==
    \A i \in 1..Len(rings) :
        LET R == rings[i]
        IN  /\ R.phi = CoprimeCount(R.n)
            /\ \A j \in 1..Len(R.prime_factors) :
                   PhiFold(R.n, R.prime_factors, j - 1)
                       % R.prime_factors[j][1] = 0

\* the ring of 12, whose totient is 4
C6_Witness ==
    \E i \in 1..Len(rings) : rings[i].n = 12 /\ rings[i].phi = 4

\* C7: the prime_factors of a ring have only prime keys, only multiplicities
\* of at least 1, and the product of key^multiplicity is n.
C7_FactorizationIsPrimeAndComplete ==
    \A i \in 1..Len(rings) :
        LET pf == rings[i].prime_factors
        IN  /\ \A j \in 1..Len(pf) : IsPrime(pf[j][1]) /\ pf[j][2] >= 1
            /\ \A j, l \in 1..Len(pf) : j # l => pf[j][1] # pf[l][1]
            /\ FactorProduct(pf, Len(pf)) = rings[i].n

\* 45 = 3^2 * 5: an odd divisor found twice, and a cofactor left over
C7_Witness ==
    \E i \in 1..Len(rings) :
        rings[i].n = 45 /\ rings[i].prime_factors = << <<3, 2>>, <<5, 1>> >>

\* C8: every Element, held or just returned, has 0 <= value < modulus of its
\* ring, and its own modulus copy is its ring's modulus.
C8_ValuesAreReduced ==
    \A e \in elems \cup (IF out.res.kind = "elem" THEN {out.res.elem} ELSE {}) :
        /\ e.ring \in 1..Len(rings)
        /\ 0 <= e.value
        /\ e.value < rings[e.ring].n
        /\ e.n = rings[e.ring].n

\* the zero element negated: n - 0 reduces to 0
C8_Witness ==
    /\ out.op = "neg" /\ out.a.value = 0
    /\ out.res.kind = "elem" /\ out.res.elem.value = 0
    /\ \E e \in elems : e.value # 0

C10_SecondIsGcdThirdIsCoprimePart ==
    (out.op = "decompose" /\ GCD(out.a.value, out.a.n) # 1)
        => /\ out.res.triple[2] = GCD(out.a.n, out.a.value)
           /\ out.res.triple[3] = LargestCoprimeDivisor(out.a.n, out.a.value)

============================================================================
